---- MODULE Spec2Model ----
(***************************************************************************)
(* CDN upload and lifecycle manager: the chunked ingestion route           *)
(* (api/upload-chunked), the single-shot and direct upload routes          *)
(* (api/upload), the file registry with its lazy garbage collection, and   *)
(* the resolver (api/files/[filename]), beside them the client component   *)
(* that drives the chunk protocol and the wiki's hybrid storage hooks.     *)
(*                                                                         *)
(* Time is the value of Date.now(); one Tick is one clock unit.  Ids are   *)
(* Date.now().toString(), modelled by the clock value itself (the decimal  *)
(* rendering of an integer is injective).  A file name is the sequence of  *)
(* its '.'-separated segments; a stored name `${id}.${ext}` is the pair    *)
(* <<id, ext>>.  A buffer is a sequence of bytes.                          *)
(*                                                                         *)
(* Each route handler is one action.  The external services (GitHub        *)
(* Releases, Supabase, the temp file system) answer each call with success *)
(* or failure, chosen nondeterministically per handler invocation.         *)
(***************************************************************************)
EXTENDS Integers, Sequences, FiniteSets, TLC

(* ------------------------------ bounds --------------------------------- *)
\* Last clock value.
MaxTime == 3
\* Largest totalChunks a client declares; chunk indices sent are 0..MaxChunks-1.
MaxChunks == 2
\* Assets the release may hold.
MaxAssets == 2
\* POST /api/upload invocations in flight at once.
MaxRequests == 2

(* ------------------------- program constants --------------------------- *)
\* 14 * 24 * 60 * 60 * 1000 ms, in clock units of 7 days.
RETENTION == 2
\* 4 * 1024 * 1024 bytes, in buffer units of 0.5 MB.
MAX_FILE_SIZE == 8

\* 3.5 * 1024 * 1024 bytes, the chunkSize init returns, in units of 0.5 MB.
CHUNK_SIZE == 7
\* 4 * 1024 * 1024 bytes, the size of the slices the client cuts a file into.
CLIENT_CHUNK_SIZE == 8

\* The route with compression measures its buffers in units of 1 MB:
\* 500 * 1024 * 1024 bytes,
MEDIA_MAX_FILE_SIZE == 500
\* 50 * 1024 * 1024 bytes, the size above which a video is a candidate,
VIDEO_THRESHOLD == 50
\* 1024 * 1024 bytes, the size above which an image is recompressed.
IMAGE_THRESHOLD == 1

Times == 0..MaxTime
ChunkIdx == 0..(MaxChunks - 1)
\* Chunk payloads clients send.
Chunks == {<<1>>, <<2, 2>>}
\* Client file names, split at '.'.
FileNames == {<<"a", "png">>, <<"b">>}
\* Files offered to the single-shot and direct routes; the last is over MAX_FILE_SIZE.
Files == {[name |-> <<"a", "png">>, data |-> <<1>>],
          [name |-> <<"b">>, data |-> <<2, 2>>],
          [name |-> <<"b">>, data |-> <<1, 1, 1, 1, 1, 1, 1, 1, 1>>]}
\* The external call that fails for a transient reason in one handler
\* invocation (at most one per invocation): the three GitHub calls; the
\* Supabase insert, delete, select of the garbage collection and select of
\* the listing or lookup; the readFile calls.
GhFaults == {"get", "create", "upload"}

NoBody == <<>>
\* A Map, a table or a directory tree with nothing in it.
EmptyMap == [k \in {} |-> 0]
\* No unlink call fails.
NoFault == 0 - 1

VARIABLES
    now,             \* Date.now()
    supabase,        \* whether the Supabase client is configured (module constant)
    uploadRegistry,  \* upload-chunked: Map uploadId -> ChunkMetadata
    chunkFiles,      \* temp files: <<uploadId, chunkIndex>> -> bytes
    release,         \* whether the release tagged 'cdn-files' exists
    assets,          \* release assets: stored name -> bytes
    cdn_files,       \* Supabase table cdn_files: id (primary key) -> row
    fileRegistry,    \* upload route's in-memory fallback array
    resp,            \* the response of the last handler invocation
    inflight,        \* POST /api/upload invocations suspended at an await:
                     \* request -> [pc, fileId, file]
    storage,         \* the hybrid storage hooks of the wiki: the ids held by
                     \* [pages, items] (React state and localStorage) and by
                     \* the Supabase tables [wiki_pages, gallery_items]
    rateLimitStore   \* auth route: Map ip -> [attempts, lastAttempt, lockoutUntil]

vars == <<now, supabase, uploadRegistry, chunkFiles, release, assets, cdn_files,
          fileRegistry, resp, inflight, storage, rateLimitStore>>

(* ------------------------------ helpers -------------------------------- *)
\* originalName.split('.').pop() || ''
Ext(name) == IF Len(name) = 0 THEN "" ELSE name[Len(name)]

\* `${fileId}.${ext}`
StoredName(id, name) == <<id, Ext(name)>>

\* asset.data.browser_download_url: determined by the asset's name.
BrowserDownloadUrl(name) == <<"cdn-files", name>>

\* Map.delete / removal of keys from a finite map.
Without(f, ks) == [k \in (DOMAIN f) \ ks |-> f[k]]

\* Map.set
With(f, k, v) == [x \in (DOMAIN f) \cup {k} |-> IF x = k THEN v ELSE f[x]]

\* NextResponse.json(body, {status}) of handler `op`; error is body.error.
Response(op, status, error, body) ==
    [op |-> op, status |-> status, error |-> error, body |-> body]

Range(s) == {s[i] : i \in DOMAIN s}

\* Buffer.concat(buffers)
RECURSIVE Concat(_)
Concat(buffers) ==
    IF buffers = <<>> THEN <<>> ELSE Head(buffers) \o Concat(Tail(buffers))

Init ==
    /\ now = 0
    /\ supabase \in BOOLEAN
    /\ uploadRegistry = EmptyMap
    /\ chunkFiles = EmptyMap
    /\ release = FALSE
    /\ assets = EmptyMap
    /\ cdn_files = EmptyMap
    /\ fileRegistry = <<>>
    /\ resp = Response("none", 0, "", NoBody)
    /\ inflight = EmptyMap
    /\ storage = [pages |-> {}, items |-> {}, wiki_pages |-> {}, gallery_items |-> {}]
    /\ rateLimitStore = EmptyMap

\* The clock advances.
Tick ==
    /\ now < MaxTime
    /\ now' = now + 1
    /\ UNCHANGED <<storage, rateLimitStore, supabase, uploadRegistry, chunkFiles, release, assets,
                   cdn_files, fileRegistry, resp, inflight>>

(* --------------------------- GitHub Releases --------------------------- *)
\* getReleaseByTag, and createRelease in its catch block: whether a release
\* was obtained, and whether the release exists afterwards.  The lookup fails
\* when the release does not exist or for a transient reason; every failure
\* leads to createRelease, which fails when the tag already has a release.
GetOrCreateRelease(fault) ==
    IF release /\ fault # "get"
    THEN [ok |-> TRUE, release |-> TRUE]
    ELSE IF ~release /\ fault # "create"
         THEN [ok |-> TRUE, release |-> TRUE]
         ELSE [ok |-> FALSE, release |-> release]

\* Mutant of UploadReleaseAssetOk: an attempt that fails for a transient
\* reason is repeated, and the second attempt succeeds.
UploadReleaseAssetOk_retried(name, fault) ==
    name \notin DOMAIN assets

\* uploadReleaseAsset: one attempt; a release holds one asset per name.
UploadReleaseAssetOk(name, fault) ==
    fault # "upload" /\ name \notin DOMAIN assets

(* ------------------------ api/upload-chunked --------------------------- *)
\* initializeUpload(body): fileSize 0 and totalChunks 0 stand for a missing
\* (falsy) field.
initializeUpload(fileName, fileSize, totalChunks) ==
    /\ IF Len(fileName) = 0 \/ fileSize = 0 \/ totalChunks = 0
       THEN /\ resp' = Response("init", 400, "Missing required fields", NoBody)
            /\ UNCHANGED uploadRegistry
       ELSE /\ uploadRegistry' = With(uploadRegistry, now,
                    [uploadId |-> now, fileName |-> fileName,
                     totalChunks |-> totalChunks, uploadedChunks |-> <<>>,
                     originalSize |-> fileSize])
            /\ resp' = Response("init", 200, "",
                    [uploadId |-> now, totalChunks |-> totalChunks,
                     chunkSize |-> CHUNK_SIZE])
    /\ UNCHANGED <<now, storage, rateLimitStore, supabase, inflight, chunkFiles, release,
                   assets, cdn_files, fileRegistry>>

\* Mutant of TrackChunk: the push without the includes() test.
TrackChunk_alwaysPush(uploadedChunks, chunkIndex) ==
    Append(uploadedChunks, chunkIndex)

\* if (!metadata.uploadedChunks.includes(chunkIndex)) push(chunkIndex)
TrackChunk(uploadedChunks, chunkIndex) ==
    IF chunkIndex \in Range(uploadedChunks)
    THEN uploadedChunks
    ELSE Append(uploadedChunks, chunkIndex)

\* Mutant of uploadChunk: the chunk file is written before the session lookup.
uploadChunk_writeFirst(wellFormed, uploadId, chunkIndex, chunk, writeOk) ==
    /\ IF ~wellFormed
       THEN /\ resp' = Response("chunk", 400, "Missing chunk, uploadId, or chunkIndex", NoBody)
            /\ UNCHANGED <<uploadRegistry, chunkFiles>>
       ELSE IF uploadId \notin DOMAIN uploadRegistry
       THEN /\ resp' = Response("chunk", 404, "Upload session not found", NoBody)
            /\ chunkFiles' = IF writeOk
                             THEN With(chunkFiles, <<uploadId, chunkIndex>>, chunk)
                             ELSE chunkFiles
            /\ UNCHANGED uploadRegistry
       ELSE IF ~writeOk
       THEN /\ resp' = Response("chunk", 500, "Failed to save chunk", NoBody)
            /\ UNCHANGED <<uploadRegistry, chunkFiles>>
       ELSE LET metadata == uploadRegistry[uploadId]
                tracked == TrackChunk(metadata.uploadedChunks, chunkIndex)
            IN /\ chunkFiles' = With(chunkFiles, <<uploadId, chunkIndex>>, chunk)
               /\ uploadRegistry' = With(uploadRegistry, uploadId,
                      [metadata EXCEPT !.uploadedChunks = tracked])
               /\ resp' = Response("chunk", 200, "",
                      [chunkIndex |-> chunkIndex, uploadId |-> uploadId,
                       uploadedChunks |-> Len(tracked),
                       totalChunks |-> metadata.totalChunks])
    /\ UNCHANGED <<now, storage, rateLimitStore, supabase, inflight, release, assets, cdn_files,
                   fileRegistry>>

\* uploadChunk(request).  wellFormed: the form holds a chunk, a non-empty
\* uploadId and a chunkIndex that parses to a number.  writeOk: writeFile
\* succeeds.
uploadChunk(wellFormed, uploadId, chunkIndex, chunk, writeOk) ==
    /\ IF ~wellFormed
       THEN /\ resp' = Response("chunk", 400, "Missing chunk, uploadId, or chunkIndex", NoBody)
            /\ UNCHANGED <<uploadRegistry, chunkFiles>>
       ELSE IF uploadId \notin DOMAIN uploadRegistry
       THEN /\ resp' = Response("chunk", 404, "Upload session not found", NoBody)
            /\ UNCHANGED <<uploadRegistry, chunkFiles>>
       ELSE IF ~writeOk
       THEN /\ resp' = Response("chunk", 500, "Failed to save chunk", NoBody)
            /\ UNCHANGED <<uploadRegistry, chunkFiles>>
       ELSE LET metadata == uploadRegistry[uploadId]
                tracked == TrackChunk(metadata.uploadedChunks, chunkIndex)
            IN /\ chunkFiles' = With(chunkFiles, <<uploadId, chunkIndex>>, chunk)
               /\ uploadRegistry' = With(uploadRegistry, uploadId,
                      [metadata EXCEPT !.uploadedChunks = tracked])
               /\ resp' = Response("chunk", 200, "",
                      [chunkIndex |-> chunkIndex, uploadId |-> uploadId,
                       uploadedChunks |-> Len(tracked),
                       totalChunks |-> metadata.totalChunks])
    /\ UNCHANGED <<now, storage, rateLimitStore, supabase, inflight, release, assets, cdn_files,
                   fileRegistry>>

\* Mutant of ChunkReadOrder: the chunks are read in the order they arrived.
ChunkReadOrder_arrival(metadata) == metadata.uploadedChunks

\* The read loop of completeUpload: chunk_0 .. chunk_{totalChunks-1}, in index order.
ChunkReadOrder(metadata) == [i \in 1..metadata.totalChunks |-> i - 1]

\* Whether every readFile of the loop returns its file.
ChunksReadable(uploadId, metadata, fault) ==
    /\ fault # "read"
    /\ \A i \in Range(ChunkReadOrder(metadata)) : <<uploadId, i>> \in DOMAIN chunkFiles

\* Buffer.concat(mergedChunks)
MergeChunks(uploadId, metadata) ==
    LET order == ChunkReadOrder(metadata)
    IN Concat([k \in DOMAIN order |-> chunkFiles[<<uploadId, order[k]>>]])

\* The cleanup loops of completeUpload: unlink chunk_0 .. chunk_{totalChunks-1}
\* where they exist; the unlink of chunk_unlinkFail throws and ends the loop.
\* The files left, and whether the loop ran to its end.
CleanupChunks(uploadId, metadata, unlinkFail) ==
    LET present == {i \in 0..(metadata.totalChunks - 1) : <<uploadId, i>> \in DOMAIN chunkFiles}
        thrown == unlinkFail \in present
        removed == IF thrown THEN {i \in present : i < unlinkFail} ELSE present
    IN [files |-> Without(chunkFiles, {<<uploadId, i>> : i \in removed}),
        done |-> ~thrown]

\* The row completeUpload inserts into cdn_files.
ChunkedRow(fileId, originalName, finalBuffer) ==
    [id |-> fileId, originalName |-> originalName,
     fileName |-> StoredName(fileId, originalName), size |-> Len(finalBuffer),
     uploadDate |-> now, expiryDate |-> now + RETENTION,
     githubUrl |-> BrowserDownloadUrl(StoredName(fileId, originalName))]

\* supabase.from('cdn_files').insert([row]) not followed by a look at the
\* returned error: the row is stored when the call succeeds and the primary
\* key is free.
InsertIgnoringError(row, fault) ==
    IF supabase /\ fault # "insert" /\ row.id \notin DOMAIN cdn_files
    THEN With(cdn_files, row.id, row)
    ELSE cdn_files

\* Mutant of completeUpload: on the success path uploadRegistry.delete sits
\* inside the try block of the cleanup, so a failed unlink skips it.
completeUpload_deleteInsideTry(uploadId, originalName, fault, unlinkFail) ==
    /\ Cardinality(DOMAIN assets) < MaxAssets
    /\ IF uploadId \notin DOMAIN uploadRegistry
       THEN /\ resp' = Response("complete", 404, "Upload session not found", NoBody)
            /\ UNCHANGED <<uploadRegistry, chunkFiles, release, assets, cdn_files>>
       ELSE LET metadata == uploadRegistry[uploadId]
                fileId == uploadId
                finalFileName == StoredName(fileId, originalName)
                rel == GetOrCreateRelease(fault)
                cleanup == CleanupChunks(uploadId, metadata, unlinkFail)
            IN IF Len(metadata.uploadedChunks) # metadata.totalChunks
               THEN /\ resp' = Response("complete", 400, "Missing chunks", NoBody)
                    /\ UNCHANGED <<uploadRegistry, chunkFiles, release, assets, cdn_files>>
               ELSE IF /\ ChunksReadable(uploadId, metadata, fault)
                       /\ rel.ok
                       /\ UploadReleaseAssetOk(finalFileName, fault)
               THEN LET finalBuffer == MergeChunks(uploadId, metadata)
                        row == ChunkedRow(fileId, originalName, finalBuffer)
                    IN /\ release' = rel.release
                       /\ assets' = With(assets, finalFileName, finalBuffer)
                       /\ cdn_files' = InsertIgnoringError(row, fault)
                       /\ chunkFiles' = cleanup.files
                       /\ uploadRegistry' = IF cleanup.done
                                            THEN Without(uploadRegistry, {uploadId})
                                            ELSE uploadRegistry
                       /\ resp' = Response("complete", 200, "",
                              [id |-> row.id, originalName |-> row.originalName,
                               fileName |-> row.fileName, size |-> row.size,
                               githubUrl |-> row.githubUrl])
               ELSE \* the catch block
                    /\ release' = IF ChunksReadable(uploadId, metadata, fault)
                                  THEN rel.release ELSE release
                    /\ chunkFiles' = cleanup.files
                    /\ uploadRegistry' = IF cleanup.done
                                         THEN Without(uploadRegistry, {uploadId})
                                         ELSE uploadRegistry
                    /\ resp' = Response("complete", 500, "Failed to complete upload", NoBody)
                    /\ UNCHANGED <<assets, cdn_files>>
    /\ UNCHANGED <<now, storage, rateLimitStore, supabase, inflight, fileRegistry>>

\* completeUpload(body).
completeUpload(uploadId, originalName, fault, unlinkFail) ==
    /\ Cardinality(DOMAIN assets) < MaxAssets
    /\ IF uploadId \notin DOMAIN uploadRegistry
       THEN /\ resp' = Response("complete", 404, "Upload session not found", NoBody)
            /\ UNCHANGED <<uploadRegistry, chunkFiles, release, assets, cdn_files>>
       ELSE LET metadata == uploadRegistry[uploadId]
                fileId == uploadId
                finalFileName == StoredName(fileId, originalName)
                rel == GetOrCreateRelease(fault)
                cleanup == CleanupChunks(uploadId, metadata, unlinkFail)
            IN IF Len(metadata.uploadedChunks) # metadata.totalChunks
               THEN /\ resp' = Response("complete", 400, "Missing chunks", NoBody)
                    /\ UNCHANGED <<uploadRegistry, chunkFiles, release, assets, cdn_files>>
               ELSE IF /\ ChunksReadable(uploadId, metadata, fault)
                       /\ rel.ok
                       /\ UploadReleaseAssetOk(finalFileName, fault)
               THEN LET finalBuffer == MergeChunks(uploadId, metadata)
                        row == ChunkedRow(fileId, originalName, finalBuffer)
                    IN /\ release' = rel.release
                       /\ assets' = With(assets, finalFileName, finalBuffer)
                       /\ cdn_files' = InsertIgnoringError(row, fault)
                       /\ chunkFiles' = cleanup.files
                       /\ uploadRegistry' = Without(uploadRegistry, {uploadId})
                       /\ resp' = Response("complete", 200, "",
                              [id |-> row.id, originalName |-> row.originalName,
                               fileName |-> row.fileName, size |-> row.size,
                               githubUrl |-> row.githubUrl])
               ELSE \* the catch block
                    /\ release' = IF ChunksReadable(uploadId, metadata, fault)
                                  THEN rel.release ELSE release
                    /\ chunkFiles' = cleanup.files
                    /\ uploadRegistry' = IF cleanup.done
                                         THEN Without(uploadRegistry, {uploadId})
                                         ELSE uploadRegistry
                    /\ resp' = Response("complete", 500, "Failed to complete upload", NoBody)
                    /\ UNCHANGED <<assets, cdn_files>>
    /\ UNCHANGED <<now, storage, rateLimitStore, supabase, inflight, fileRegistry>>

(* ----------------------------- api/upload ------------------------------ *)
\* .order('uploadDate', { ascending: false }): the orders the table's rows may
\* come back in (rows of equal uploadDate in either order).
SelectOrdered(table) ==
    LET ids == DOMAIN table
        n == Cardinality(ids)
    IN {[k \in 1..n |-> table[p[k]]] :
           p \in {q \in [1..n -> ids] :
                     /\ \A a, b \in 1..n : a # b => q[a] # q[b]
                     /\ \A a, b \in 1..n :
                           a < b => table[q[a]].uploadDate >= table[q[b]].uploadDate}}

\* getFileRegistry(): the arrays it may return.  selectOk: the select succeeds.
getFileRegistry(table, memory, selectOk) ==
    IF supabase /\ selectOk THEN SelectOrdered(table) ELSE {memory}

\* saveFileToRegistry(file): the table and the in-memory array afterwards.
\* The insert fails for a transient reason or when the primary key is taken, and
\* the catch block falls through to the in-memory push.
saveFileToRegistry(table, memory, file, fault) ==
    IF supabase /\ fault # "insert" /\ file.id \notin DOMAIN table
    THEN [table |-> With(table, file.id, file), memory |-> memory]
    ELSE [table |-> table, memory |-> Append(memory, file)]

\* deleteFileFromRegistry(fileId): the table and the in-memory array afterwards.
deleteFileFromRegistry(table, memory, fileId, fault) ==
    IF supabase /\ fault # "delete"
    THEN [table |-> Without(table, {fileId}), memory |-> memory]
    ELSE [table |-> table,
          memory |-> SelectSeq(memory, LAMBDA f : f.id # fileId)]

\* Mutant of Expired: a record is expired only once now is past expiryDate.
Expired_strict(file) == file.expiryDate < now

\* if (expiryDate <= now)
Expired(file) == file.expiryDate <= now

\* The loop of cleanupExpiredFiles over the array `files`, from index k.
RECURSIVE CleanupLoop(_, _, _, _, _)
CleanupLoop(files, k, table, memory, fault) ==
    IF k > Len(files)
    THEN [table |-> table, memory |-> memory]
    ELSE IF Expired(files[k])
         THEN LET r == deleteFileFromRegistry(table, memory, files[k].id, fault)
              IN CleanupLoop(files, k + 1, r.table, r.memory, fault)
         ELSE CleanupLoop(files, k + 1, table, memory, fault)

\* cleanupExpiredFiles(): the table and the in-memory array afterwards.  The
\* result does not depend on the order the rows were read in.
cleanupExpiredFiles(fault) ==
    LET files == CHOOSE fs \in getFileRegistry(cdn_files, fileRegistry, fault # "gcSelect") : TRUE
    IN CleanupLoop(files, 1, cdn_files, fileRegistry, fault)

\* Mutant of FileRecord: the record expires at the instant it is written.
FileRecord_expiresAtOnce(fileId, file) ==
    [id |-> fileId, originalName |-> file.name,
     fileName |-> StoredName(fileId, file.name), size |-> Len(file.data),
     uploadDate |-> now, expiryDate |-> now,
     githubUrl |-> BrowserDownloadUrl(StoredName(fileId, file.name))]

\* The fileRecord of the single-shot route.
FileRecord(fileId, file) ==
    [id |-> fileId, originalName |-> file.name,
     fileName |-> StoredName(fileId, file.name), size |-> Len(file.data),
     uploadDate |-> now, expiryDate |-> now + RETENTION,
     githubUrl |-> BrowserDownloadUrl(StoredName(fileId, file.name))]

\* Mutant of uploadPOST: the record is saved whether or not the GitHub upload
\* succeeded.
uploadPOST_saveRegardless(hasFile, file, fault) ==
    /\ Cardinality(DOMAIN assets) < MaxAssets
    /\ LET gc == cleanupExpiredFiles(fault)
           fileId == now
           fileName == StoredName(fileId, file.name)
           rel == GetOrCreateRelease(fault)
           fileRecord == FileRecord(fileId, file)
           saved == saveFileToRegistry(gc.table, gc.memory, fileRecord, fault)
       IN IF ~hasFile
          THEN /\ resp' = Response("upload", 400, "No file provided", NoBody)
               /\ cdn_files' = gc.table
               /\ fileRegistry' = gc.memory
               /\ UNCHANGED <<release, assets>>
          ELSE IF Len(file.data) > MAX_FILE_SIZE
          THEN /\ resp' = Response("upload", 413, "File too large", NoBody)
               /\ cdn_files' = gc.table
               /\ fileRegistry' = gc.memory
               /\ UNCHANGED <<release, assets>>
          ELSE IF rel.ok /\ UploadReleaseAssetOk(fileName, fault)
          THEN /\ release' = rel.release
               /\ assets' = With(assets, fileName, file.data)
               /\ cdn_files' = saved.table
               /\ fileRegistry' = saved.memory
               /\ resp' = Response("upload", 200, "", fileRecord)
          ELSE /\ release' = rel.release
               /\ cdn_files' = saved.table
               /\ fileRegistry' = saved.memory
               /\ resp' = Response("upload", 500, "Upload failed", NoBody)
               /\ UNCHANGED assets
    /\ UNCHANGED <<now, storage, rateLimitStore, supabase, inflight, uploadRegistry, chunkFiles>>

\* POST /api/upload.  hasFile: the form holds a file.
uploadPOST(hasFile, file, fault) ==
    /\ Cardinality(DOMAIN assets) < MaxAssets
    /\ LET gc == cleanupExpiredFiles(fault)
           fileId == now
           fileName == StoredName(fileId, file.name)
           rel == GetOrCreateRelease(fault)
           fileRecord == FileRecord(fileId, file)
           saved == saveFileToRegistry(gc.table, gc.memory, fileRecord, fault)
       IN IF ~hasFile
          THEN /\ resp' = Response("upload", 400, "No file provided", NoBody)
               /\ cdn_files' = gc.table
               /\ fileRegistry' = gc.memory
               /\ UNCHANGED <<release, assets>>
          ELSE IF Len(file.data) > MAX_FILE_SIZE
          THEN /\ resp' = Response("upload", 413, "File too large", NoBody)
               /\ cdn_files' = gc.table
               /\ fileRegistry' = gc.memory
               /\ UNCHANGED <<release, assets>>
          ELSE IF rel.ok /\ UploadReleaseAssetOk(fileName, fault)
          THEN /\ release' = rel.release
               /\ assets' = With(assets, fileName, file.data)
               /\ cdn_files' = saved.table
               /\ fileRegistry' = saved.memory
               /\ resp' = Response("upload", 200, "", fileRecord)
          ELSE /\ release' = rel.release
               /\ cdn_files' = gc.table
               /\ fileRegistry' = gc.memory
               /\ resp' = Response("upload", 500, "Upload failed", NoBody)
               /\ UNCHANGED assets
    /\ UNCHANGED <<now, storage, rateLimitStore, supabase, inflight, uploadRegistry, chunkFiles>>

\* Mutant of uploadGET: a failed select of the listing is answered with 500.
uploadGET_selectFailureIs500(fault) ==
    /\ LET gc == cleanupExpiredFiles(fault)
       IN /\ cdn_files' = gc.table
          /\ fileRegistry' = gc.memory
          /\ IF supabase /\ fault = "select"
             THEN resp' = Response("list", 500, "Failed to get files", NoBody)
             ELSE \E files \in getFileRegistry(gc.table, gc.memory, TRUE) :
                     resp' = Response("list", 200, "", files)
    /\ UNCHANGED <<now, storage, rateLimitStore, supabase, inflight, uploadRegistry, chunkFiles,
                   release, assets>>

\* GET /api/upload
uploadGET(fault) ==
    /\ LET gc == cleanupExpiredFiles(fault)
       IN /\ cdn_files' = gc.table
          /\ fileRegistry' = gc.memory
          /\ \E files \in getFileRegistry(gc.table, gc.memory, fault # "select") :
                resp' = Response("list", 200, "", files)
    /\ UNCHANGED <<now, storage, rateLimitStore, supabase, inflight, uploadRegistry, chunkFiles,
                   release, assets>>

\* Mutant of uploadDELETE: the assets of the deleted record are removed from
\* the release as well.
uploadDELETE_removesAsset(hasId, fileId, fault) ==
    /\ IF ~hasId
       THEN /\ resp' = Response("delete", 400, "File ID required", NoBody)
            /\ UNCHANGED <<cdn_files, fileRegistry, assets>>
       ELSE LET r == deleteFileFromRegistry(cdn_files, fileRegistry, fileId, fault)
            IN /\ cdn_files' = r.table
               /\ fileRegistry' = r.memory
               /\ assets' = Without(assets, {n \in DOMAIN assets : n[1] = fileId})
               /\ resp' = Response("delete", 200, "", NoBody)
    /\ UNCHANGED <<now, storage, rateLimitStore, supabase, inflight, uploadRegistry, chunkFiles,
                   release>>

\* DELETE /api/upload?id=.  hasId: the query holds an id.
uploadDELETE(hasId, fileId, fault) ==
    /\ IF ~hasId
       THEN /\ resp' = Response("delete", 400, "File ID required", NoBody)
            /\ UNCHANGED <<cdn_files, fileRegistry>>
       ELSE LET r == deleteFileFromRegistry(cdn_files, fileRegistry, fileId, fault)
            IN /\ cdn_files' = r.table
               /\ fileRegistry' = r.memory
               /\ resp' = Response("delete", 200, "", NoBody)
    /\ UNCHANGED <<now, storage, rateLimitStore, supabase, inflight, uploadRegistry, chunkFiles,
                   release, assets>>

\* The row the direct upload route inserts into cdn_files.
DirectRow(fileId, file) ==
    [id |-> fileId, originalName |-> file.name,
     fileName |-> StoredName(fileId, file.name), size |-> Len(file.data),
     uploadDate |-> now, expiryDate |-> now + RETENTION,
     githubUrl |-> BrowserDownloadUrl(StoredName(fileId, file.name))]

\* POST of the direct upload route.  hasLength: the request carries a
\* Content-Length header (model files are below the route's 2 GB limit).
directPOST(hasLength, file, fault) ==
    /\ Cardinality(DOMAIN assets) < MaxAssets
    /\ LET fileId == now
           uniqueFileName == StoredName(fileId, file.name)
           rel == GetOrCreateRelease(fault)
           row == DirectRow(fileId, file)
       IN IF ~hasLength
          THEN /\ resp' = Response("direct", 400, "Content-Length header required", NoBody)
               /\ UNCHANGED <<release, assets, cdn_files>>
          ELSE IF rel.ok /\ UploadReleaseAssetOk(uniqueFileName, fault)
          THEN /\ release' = rel.release
               /\ assets' = With(assets, uniqueFileName, file.data)
               /\ cdn_files' = InsertIgnoringError(row, fault)
               /\ resp' = Response("direct", 200, "",
                      [id |-> row.id, originalName |-> row.originalName,
                       fileName |-> row.fileName, size |-> row.size,
                       githubUrl |-> row.githubUrl])
          ELSE /\ release' = rel.release
               /\ resp' = Response("direct", 500, "Upload failed", NoBody)
               /\ UNCHANGED <<assets, cdn_files>>
    /\ UNCHANGED <<now, storage, rateLimitStore, supabase, inflight, uploadRegistry, chunkFiles,
                   fileRegistry>>

(* ---------------------- utils/directGitHubUpload ----------------------- *)
\* saveFileMetadata(fileId, originalName, fileName, size, mimeType, githubUrl,
\* supabaseUrl, supabaseKey), called for an asset named fileName that the
\* caller has uploaded.  It creates a Supabase client of its own; the insert
\* fails for a transient reason or when the primary key is taken.
saveFileMetadata(fileId, fileName, size, fault) ==
    /\ fileName \in DOMAIN assets
    /\ LET row == [id |-> fileId, originalName |-> <<"b">>, fileName |-> fileName,
                   size |-> size, uploadDate |-> now, expiryDate |-> now + RETENTION,
                   githubUrl |-> BrowserDownloadUrl(fileName)]
       IN IF fault # "insert" /\ fileId \notin DOMAIN cdn_files
          THEN /\ cdn_files' = With(cdn_files, fileId, row)
               /\ resp' = Response("saveFileMetadata", 0, "", [success |-> TRUE])
          ELSE /\ resp' = Response("saveFileMetadata", 0, "Failed to save metadata",
                                   [success |-> FALSE])
               /\ UNCHANGED cdn_files
    /\ UNCHANGED <<now, storage, rateLimitStore, supabase, inflight, uploadRegistry, chunkFiles,
                   release, assets,
                   fileRegistry>>

(* -------------------- upload route with compression -------------------- *)
\* A buffer of n equal bytes.
Bytes(n, byte) == [i \in 1..n |-> byte]

\* Files offered to the route: name, MIME type split at '/', content.  An
\* image above 1 MB, a large image (201 MB), an image of exactly 1 MB, a small
\* and a large video, a document,
MediaFiles ==
    {[name |-> <<"a", "png">>, type |-> <<"image", "png">>, data |-> Bytes(2, 1)],
     [name |-> <<"g", "png">>, type |-> <<"image", "png">>, data |-> Bytes(201, 7)],
     [name |-> <<"c", "jpg">>, type |-> <<"image", "jpeg">>, data |-> Bytes(1, 2)],
     [name |-> <<"v", "mp4">>, type |-> <<"video", "mp4">>, data |-> Bytes(2, 3)],
     [name |-> <<"w", "mp4">>, type |-> <<"video", "mp4">>, data |-> Bytes(VIDEO_THRESHOLD + 1, 4)],
     [name |-> <<"d", "pdf">>, type |-> <<"application", "pdf">>, data |-> Bytes(2, 5)]}

\* and a file over the size limit.
OverLimitFile ==
    [name |-> <<"e", "pdf">>, type |-> <<"application", "pdf">>,
     data |-> Bytes(MEDIA_MAX_FILE_SIZE + 1, 6)]

\* sharp throws.
SharpThrows == [threw |-> TRUE, out |-> <<>>]

\* What sharp(inputBuffer)...toBuffer() may do: throw, or return an encoding
\* that is shorter than, as long as, or longer than the input.
Sharp(inputBuffer) ==
    {SharpThrows} \cup
    {[threw |-> FALSE, out |-> Bytes(n, 9)] :
        n \in {k \in {Len(inputBuffer) - 1, Len(inputBuffer), Len(inputBuffer) + 1} : k >= 0}}

\* compressImage(inputBuffer, mimeType): the encoder is chosen by mimeType
\* (png, webp, else jpeg); whichever it is, sharp returns or throws.
compressImage(inputBuffer, mimeType, sharp) ==
    IF sharp.threw
    THEN [success |-> FALSE, outputBuffer |-> <<>>,
          originalSize |-> Len(inputBuffer), compressedSize |-> 0]
    ELSE [success |-> TRUE, outputBuffer |-> sharp.out,
          originalSize |-> Len(inputBuffer), compressedSize |-> Len(sharp.out)]

\* Mutant of CompressionAttempted: an image of exactly 1 MB is recompressed too.
CompressionAttempted_inclusive(type, size) ==
    IF type[1] = "video" /\ size > VIDEO_THRESHOLD
    THEN FALSE
    ELSE type[1] = "image" /\ size >= IMAGE_THRESHOLD

\* if (isVideo && size > 50 MB) { as-is } else if (isImage && size > 1 MB):
\* whether compressImage is called.
CompressionAttempted(type, size) ==
    IF type[1] = "video" /\ size > VIDEO_THRESHOLD
    THEN FALSE
    ELSE type[1] = "image" /\ size > IMAGE_THRESHOLD

\* Mutant of CompressionKept: every result of a compression that succeeded
\* is kept.
CompressionKept_anySize(result) == result.success

\* result.success && result.outputBuffer && compressedSize < originalSize
\* (outputBuffer is set exactly when success is).
CompressionKept(result) ==
    result.success /\ result.compressedSize < result.originalSize

\* Math.round(((originalSize - compressedSize) / originalSize) * 100): the
\* percentage, rounded to the nearest integer (halves upwards).
CompressionRatio(result) ==
    (200 * (result.originalSize - result.compressedSize) + result.originalSize)
        \div (2 * result.originalSize)

\* The compression step of POST: the buffer, the asset name and the flags
\* that leave it.
Compress(fileId, file, sharp) ==
    LET result == compressImage(file.data, file.type, sharp)
    IN IF CompressionAttempted(file.type, Len(file.data)) /\ CompressionKept(result)
       THEN [fileBuffer |-> result.outputBuffer,
             finalFileName |-> <<fileId, "_compressed", Ext(file.name)>>,
             compressed |-> TRUE, compressionRatio |-> CompressionRatio(result)]
       ELSE [fileBuffer |-> file.data,
             finalFileName |-> StoredName(fileId, file.name),
             compressed |-> FALSE, compressionRatio |-> 0]

\* The fileRecord of the route with compression.  compressionRatio is
\* `compressed ? Math.round(compressionRatio) : undefined`: the sequence of
\* the one number reported, empty for undefined.
MediaRecord(fileId, file, step) ==
    [id |-> fileId, originalName |-> file.name, fileName |-> step.finalFileName,
     size |-> Len(step.fileBuffer), mimeType |-> file.type,
     uploadDate |-> now, expiryDate |-> now + RETENTION,
     githubUrl |-> BrowserDownloadUrl(step.finalFileName),
     compressed |-> step.compressed,
     compressionRatio |-> IF step.compressed THEN <<step.compressionRatio>> ELSE <<>>]

\* POST of the upload route with compression.
mediaPOST(hasFile, file, sharp, fault) ==
    /\ Cardinality(DOMAIN assets) < MaxAssets
    /\ LET gc == cleanupExpiredFiles(fault)
           fileId == now
           step == Compress(fileId, file, sharp)
           rel == GetOrCreateRelease(fault)
           fileRecord == MediaRecord(fileId, file, step)
           saved == saveFileToRegistry(gc.table, gc.memory, fileRecord, fault)
       IN IF ~hasFile
          THEN /\ resp' = Response("media", 400, "No file provided", NoBody)
               /\ cdn_files' = gc.table
               /\ fileRegistry' = gc.memory
               /\ UNCHANGED <<release, assets>>
          ELSE IF Len(file.data) > MEDIA_MAX_FILE_SIZE
          THEN /\ resp' = Response("media", 400, "File too large. Maximum size is 500MB", NoBody)
               /\ cdn_files' = gc.table
               /\ fileRegistry' = gc.memory
               /\ UNCHANGED <<release, assets>>
          ELSE IF rel.ok /\ UploadReleaseAssetOk(step.finalFileName, fault)
          THEN /\ release' = rel.release
               /\ assets' = With(assets, step.finalFileName, step.fileBuffer)
               /\ cdn_files' = saved.table
               /\ fileRegistry' = saved.memory
               /\ resp' = Response("media", 200, "", fileRecord)
          ELSE /\ release' = rel.release
               /\ cdn_files' = gc.table
               /\ fileRegistry' = gc.memory
               /\ resp' = Response("media", 500, "Upload failed", NoBody)
               /\ UNCHANGED assets
    /\ UNCHANGED <<now, storage, rateLimitStore, supabase, inflight, uploadRegistry, chunkFiles>>

(* ------------------------ api/files/[filename] ------------------------- *)
\* The resolver module's own in-memory fallback array: declared empty and
\* never assigned.
resolverFileRegistry == <<>>

\* getFileByFilename(filename): the rows found (none or one).  .single()
\* fails unless exactly one row matches; the catch block falls through to the
\* in-memory find.
getFileByFilename(filename, fault) ==
    LET rows == {cdn_files[id] : id \in {x \in DOMAIN cdn_files : cdn_files[x].fileName = filename}}
        found == {resolverFileRegistry[k] : k \in {x \in DOMAIN resolverFileRegistry :
                                                   resolverFileRegistry[x].fileName = filename}}
    IN IF supabase /\ fault # "select" /\ Cardinality(rows) = 1 THEN rows ELSE found

\* GET /api/files/[filename], for a well-formed filename (no '..').
filesGET(filename, fault) ==
    /\ LET found == getFileByFilename(filename, fault)
       IN IF found = {}
          THEN resp' = Response("resolve", 404, "File not found", NoBody)
          ELSE LET file == CHOOSE f \in found : TRUE
               IN IF Expired(file)
                  THEN resp' = Response("resolve", 404, "File has expired", NoBody)
                  ELSE resp' = Response("resolve", 307, "", file.githubUrl)
    /\ UNCHANGED <<now, storage, rateLimitStore, supabase, inflight, uploadRegistry, chunkFiles,
                   release, assets, cdn_files,
                   fileRegistry>>

\* Names the upload routes can generate.
StoredNames == {StoredName(t, f) : t \in Times, f \in FileNames}

(* ------------------------- utils/hybridStorage ------------------------- *)
\* The hooks useWikiPages and useGalleryItems (utils/allDataStorage has the
\* same functions).  A page or item is its id.  The hook writes its React
\* state and localStorage together, so one field stands for both.
\* isSupabaseEnabled is isSupabaseConfigured().  The helpers of
\* utils/supabase return null or false when the call fails; they do not
\* throw, so the hooks' catch blocks are not entered.
\* Frame of the hooks.
HookFrame ==
    UNCHANGED <<now, rateLimitStore, supabase, uploadRegistry, chunkFiles, release, assets,
                cdn_files, fileRegistry, inflight>>

\* savePage(page, true) for a page with a new id.  createOk: the insert
\* into wiki_pages succeeds.
savePage(page, createOk) ==
    /\ page \notin storage.pages
    /\ storage' = [storage EXCEPT
           !.pages = @ \cup {page},
           !.wiki_pages = IF supabase /\ createOk THEN @ \cup {page} ELSE @]
    /\ resp' = Response("savePage", 0, "", [returned |-> <<page>>])
    /\ HookFrame

\* deletePage(pageId).  deleteOk: the delete from wiki_pages succeeds.
deletePage(pageId, deleteOk) ==
    /\ storage' = [storage EXCEPT
           !.pages = @ \ {pageId},
           !.wiki_pages = IF supabase /\ deleteOk THEN @ \ {pageId} ELSE @]
    /\ resp' = Response("deletePage", 0, "", [returned |-> TRUE])
    /\ HookFrame

\* saveItem(item) for an item with a new id.
saveItem(item, createOk) ==
    /\ item \notin storage.items
    /\ storage' = [storage EXCEPT
           !.items = @ \cup {item},
           !.gallery_items = IF supabase /\ createOk THEN @ \cup {item} ELSE @]
    /\ resp' = Response("saveItem", 0, "", [returned |-> <<item>>])
    /\ HookFrame

\* deleteItem(itemId).
deleteItem(itemId, deleteOk) ==
    /\ storage' = [storage EXCEPT
           !.items = @ \ {itemId},
           !.gallery_items = IF supabase /\ deleteOk THEN @ \ {itemId} ELSE @]
    /\ resp' = Response("deleteItem", 0, "", [returned |-> TRUE])
    /\ HookFrame

(* ------------------------------ api/auth ------------------------------- *)
\* The rate limiter counts in milliseconds; the model counts it in minutes.
\* Minutes in one unit of the clock (7 days).
TickMinutes == 7 * 24 * 60
\* if (newAttempts >= 5)
LOCKOUT_ATTEMPTS == 5
\* if (now - data.lastAttempt > 15 * 60 * 1000)
RESET_WINDOW == 15
\* Math.min(Math.pow(2, newAttempts - 4) * 1, 360)
MAX_LOCKOUT == 360

\* Client addresses getClientIP returns.
IPs == {"10.0.0.1", "10.0.0.2"}

\* Math.min
Min(a, b) == IF a < b THEN a ELSE b

\* checkRateLimit(ip): whether the request is allowed, and the store afterwards.
checkRateLimit(ip) ==
    LET nowMinutes == now * TickMinutes
        fresh == [attempts |-> 1, lastAttempt |-> nowMinutes, lockoutUntil |-> 0]
    IN IF ip \notin DOMAIN rateLimitStore
       THEN [allowed |-> TRUE, store |-> With(rateLimitStore, ip, fresh)]
       ELSE LET data == rateLimitStore[ip]
                newAttempts == data.attempts + 1
                lockoutUntil ==
                    IF newAttempts >= LOCKOUT_ATTEMPTS
                    THEN nowMinutes + Min(2 ^ (newAttempts - 4), MAX_LOCKOUT)
                    ELSE 0
            IN IF data.lockoutUntil > nowMinutes
               THEN [allowed |-> FALSE, store |-> rateLimitStore]
               ELSE IF nowMinutes - data.lastAttempt > RESET_WINDOW
               THEN [allowed |-> TRUE, store |-> With(rateLimitStore, ip, fresh)]
               ELSE [allowed |-> lockoutUntil = 0,
                     store |-> With(rateLimitStore, ip,
                                   [attempts |-> newAttempts, lastAttempt |-> nowMinutes,
                                    lockoutUntil |-> lockoutUntil])]

\* POST /api/auth on a deployment whose password hashes are configured.
\* hasPassword: the body holds a password; valid: it matches a credential.
authPOST(ip, hasPassword, valid) ==
    /\ LET rateLimit == checkRateLimit(ip)
       IN IF ~rateLimit.allowed
          THEN /\ rateLimitStore' = rateLimit.store
               /\ resp' = Response("auth", 429,
                      "Too many failed attempts. Please try again later.", NoBody)
          ELSE IF ~hasPassword
          THEN /\ rateLimitStore' = rateLimit.store
               /\ resp' = Response("auth", 400, "Password is required", NoBody)
          ELSE IF ~valid
          THEN /\ rateLimitStore' = rateLimit.store
               /\ resp' = Response("auth", 401, "Invalid password", NoBody)
          ELSE /\ rateLimitStore' = Without(rateLimit.store, {ip})
               /\ resp' = Response("auth", 200, "", NoBody)
    /\ UNCHANGED <<now, storage, supabase, uploadRegistry, chunkFiles, release, assets, cdn_files,
                   fileRegistry, inflight>>

(* ------------------ api/upload, invocations interleaved ----------------- *)
\* POST /api/upload as the event loop runs it: an invocation is suspended at
\* each await of a GitHub or Supabase call, and other invocations run
\* meanwhile.  Every call is answered by the service's state at that moment;
\* no call fails for a transient reason.
Requests == 1..MaxRequests

\* The invocation answers, and is over.
Answer(r, response) ==
    /\ resp' = response
    /\ inflight' = Without(inflight, {r})

\* The invocation goes on to the await at pc.
Await(r, pc) ==
    inflight' = With(inflight, r, [inflight[r] EXCEPT !.pc = pc])

\* From the start of POST to the call of getReleaseByTag: the garbage
\* collection, the checks of the form, the generation of fileId.
POST_start(r, hasFile, file) ==
    /\ r \notin DOMAIN inflight
    /\ LET gc == cleanupExpiredFiles("none")
       IN /\ cdn_files' = gc.table
          /\ fileRegistry' = gc.memory
          /\ IF ~hasFile
             THEN Answer(r, Response("upload", 400, "No file provided", NoBody))
             ELSE IF Len(file.data) > MAX_FILE_SIZE
             THEN Answer(r, Response("upload", 413, "File too large", NoBody))
             ELSE /\ inflight' = With(inflight, r,
                         [pc |-> "getReleaseByTag", fileId |-> now, file |-> file])
                  /\ UNCHANGED resp
    /\ UNCHANGED <<now, storage, rateLimitStore, supabase, uploadRegistry, chunkFiles, release,
                   assets>>

\* getReleaseByTag returns: the release, or a 404 that the catch block turns
\* into a createRelease call.
POST_getReleaseByTag(r) ==
    /\ r \in DOMAIN inflight
    /\ inflight[r].pc = "getReleaseByTag"
    /\ Await(r, IF release THEN "uploadReleaseAsset" ELSE "createRelease")
    /\ UNCHANGED <<now, storage, rateLimitStore, supabase, uploadRegistry, chunkFiles, release,
                   assets, cdn_files,
                   fileRegistry, resp>>

\* createRelease returns: the new release, or the refusal of a tag that has a
\* release, which leaves uploadToGitHub as 'Failed to upload to GitHub
\* Releases' and POST through its catch block.
POST_createRelease(r) ==
    /\ r \in DOMAIN inflight
    /\ inflight[r].pc = "createRelease"
    /\ IF ~release
       THEN /\ release' = TRUE
            /\ Await(r, "uploadReleaseAsset")
            /\ UNCHANGED resp
       ELSE /\ Answer(r, Response("upload", 500, "Upload failed", NoBody))
            /\ UNCHANGED release
    /\ UNCHANGED <<now, storage, rateLimitStore, supabase, uploadRegistry, chunkFiles, assets,
                   cdn_files, fileRegistry>>

\* uploadReleaseAsset returns: the asset, or the refusal of a name the release
\* already holds.
POST_uploadReleaseAsset(r) ==
    /\ r \in DOMAIN inflight
    /\ inflight[r].pc = "uploadReleaseAsset"
    /\ LET fileName == StoredName(inflight[r].fileId, inflight[r].file.name)
       IN IF UploadReleaseAssetOk(fileName, "none")
          THEN /\ assets' = With(assets, fileName, inflight[r].file.data)
               /\ Await(r, "saveFileToRegistry")
               /\ UNCHANGED resp
          ELSE /\ Answer(r, Response("upload", 500, "Upload failed", NoBody))
               /\ UNCHANGED assets
    /\ UNCHANGED <<now, storage, rateLimitStore, supabase, uploadRegistry, chunkFiles, release,
                   cdn_files, fileRegistry>>

\* The file record is built, saveFileToRegistry returns, POST answers.
POST_saveFileToRegistry(r) ==
    /\ r \in DOMAIN inflight
    /\ inflight[r].pc = "saveFileToRegistry"
    /\ LET fileRecord == FileRecord(inflight[r].fileId, inflight[r].file)
           saved == saveFileToRegistry(cdn_files, fileRegistry, fileRecord, "none")
       IN /\ cdn_files' = saved.table
          /\ fileRegistry' = saved.memory
          /\ Answer(r, Response("upload", 200, "", fileRecord))
    /\ UNCHANGED <<now, storage, rateLimitStore, supabase, uploadRegistry, chunkFiles, release,
                   assets>>

(* -------------- api/upload-chunked, invocations interleaved ------------- *)
\* The chunk and complete handlers as the event loop runs them: an invocation
\* is suspended at each await of a file system, GitHub or Supabase call, and
\* other invocations run meanwhile.  A call takes effect when it returns; no
\* call fails for a transient reason.

\* From the start of uploadChunk to the await of writeFile: the form is read,
\* the session looked up.  metadata is the object the Map holds, shared with
\* every invocation that looked the session up.
CHUNK_start(r, uploadId, chunkIndex, chunk) ==
    /\ r \notin DOMAIN inflight
    /\ IF uploadId \notin DOMAIN uploadRegistry
       THEN Answer(r, Response("chunk", 404, "Upload session not found", NoBody))
       ELSE /\ inflight' = With(inflight, r,
                   [pc |-> "writeFile", uploadId |-> uploadId,
                    chunkIndex |-> chunkIndex, chunk |-> chunk,
                    metadata |-> uploadRegistry[uploadId]])
            /\ UNCHANGED resp
    /\ UNCHANGED <<now, storage, rateLimitStore, supabase, uploadRegistry, chunkFiles, release,
                   assets, cdn_files,
                   fileRegistry>>

\* writeFile returns: the chunk file is written, the index pushed on the
\* metadata object (in the Map or not), uploadChunk answers.
CHUNK_writeFile(r) ==
    /\ r \in DOMAIN inflight
    /\ inflight[r].pc = "writeFile"
    /\ LET uploadId == inflight[r].uploadId
           chunkIndex == inflight[r].chunkIndex
           tracked == TrackChunk(inflight[r].metadata.uploadedChunks, chunkIndex)
           metadata == [inflight[r].metadata EXCEPT !.uploadedChunks = tracked]
           holders == {q \in DOMAIN inflight \ {r} :
                          inflight[q].pc = "writeFile" /\ inflight[q].uploadId = uploadId}
       IN /\ chunkFiles' = With(chunkFiles, <<uploadId, chunkIndex>>, inflight[r].chunk)
          /\ uploadRegistry' = IF uploadId \in DOMAIN uploadRegistry
                               THEN With(uploadRegistry, uploadId, metadata)
                               ELSE uploadRegistry
          /\ inflight' = [q \in DOMAIN inflight \ {r} |->
                             IF q \in holders
                             THEN [inflight[q] EXCEPT !.metadata = metadata]
                             ELSE inflight[q]]
          /\ resp' = Response("chunk", 200, "",
                 [chunkIndex |-> chunkIndex, uploadId |-> uploadId,
                  uploadedChunks |-> Len(tracked),
                  totalChunks |-> metadata.totalChunks])
    /\ UNCHANGED <<now, storage, rateLimitStore, supabase, release, assets, cdn_files,
                   fileRegistry>>

\* From the start of completeUpload to the await of the first readFile: the
\* session lookup and the test of uploadedChunks.length.
COMPLETE_start(r, uploadId, originalName) ==
    /\ r \notin DOMAIN inflight
    /\ IF uploadId \notin DOMAIN uploadRegistry
       THEN Answer(r, Response("complete", 404, "Upload session not found", NoBody))
       ELSE IF Len(uploadRegistry[uploadId].uploadedChunks) # uploadRegistry[uploadId].totalChunks
       THEN Answer(r, Response("complete", 400, "Missing chunks", NoBody))
       ELSE /\ inflight' = With(inflight, r,
                   [pc |-> "readFile", uploadId |-> uploadId,
                    originalName |-> originalName,
                    totalChunks |-> uploadRegistry[uploadId].totalChunks,
                    i |-> 0, mergedChunks |-> <<>>, failed |-> FALSE])
            /\ UNCHANGED resp
    /\ UNCHANGED <<now, storage, rateLimitStore, supabase, uploadRegistry, chunkFiles, release,
                   assets, cdn_files,
                   fileRegistry>>

\* The first index from `from` on whose chunk file exists (existsSync), or
\* totalChunks when the loop runs off its end.
FirstChunkFile(uploadId, totalChunks, from) ==
    LET present == {i \in from..(totalChunks - 1) : <<uploadId, i>> \in DOMAIN chunkFiles}
    IN IF present = {}
       THEN totalChunks
       ELSE CHOOSE i \in present : \A j \in present : i <= j

\* The 200 response of completeUpload.
Completed(rec) ==
    LET row == ChunkedRow(rec.uploadId, rec.originalName, Concat(rec.mergedChunks))
    IN Response("complete", 200, "",
           [id |-> row.id, originalName |-> row.originalName,
            fileName |-> row.fileName, size |-> row.size,
            githubUrl |-> row.githubUrl])

\* The 500 response of the catch block of completeUpload.
NotCompleted == Response("complete", 500, "Failed to complete upload", NoBody)

\* A cleanup loop of completeUpload from index `from` up to its next await:
\* the unlink of the first chunk file that exists.  Off the end of the loop,
\* the catch block deletes the session and answers; the success path awaits
\* unlink(tempDir).
UnlinkLoop(r, rec, from, failed) ==
    LET i == FirstChunkFile(rec.uploadId, rec.totalChunks, from)
    IN IF i < rec.totalChunks
       THEN /\ inflight' = With(inflight, r,
                   [rec EXCEPT !.pc = "unlink", !.i = i, !.failed = failed])
            /\ UNCHANGED <<uploadRegistry, resp>>
       ELSE IF failed
       THEN /\ uploadRegistry' = Without(uploadRegistry, {rec.uploadId})
            /\ Answer(r, NotCompleted)
       ELSE /\ inflight' = With(inflight, r,
                   [rec EXCEPT !.pc = "unlinkTempDir", !.failed = failed])
            /\ UNCHANGED <<uploadRegistry, resp>>

\* readFile of chunk_i returns: the buffer, or ENOENT, which leaves the try
\* block for the cleanup loop of the catch block.
COMPLETE_readFile(r) ==
    /\ r \in DOMAIN inflight
    /\ inflight[r].pc = "readFile"
    /\ LET rec == inflight[r]
           chunkPath == <<rec.uploadId, rec.i>>
       IN IF chunkPath \in DOMAIN chunkFiles
          THEN /\ inflight' = With(inflight, r,
                      [rec EXCEPT !.mergedChunks = Append(rec.mergedChunks, chunkFiles[chunkPath]),
                                  !.i = rec.i + 1,
                                  !.pc = IF rec.i + 1 < rec.totalChunks
                                         THEN "readFile" ELSE "getReleaseByTag"])
               /\ UNCHANGED <<uploadRegistry, resp>>
          ELSE UnlinkLoop(r, rec, 0, TRUE)
    /\ UNCHANGED <<now, storage, rateLimitStore, supabase, chunkFiles, release, assets,
                   cdn_files, fileRegistry>>

\* getReleaseByTag returns: the release, or a 404 that the catch block turns
\* into a createRelease call.
COMPLETE_getReleaseByTag(r) ==
    /\ r \in DOMAIN inflight
    /\ inflight[r].pc = "getReleaseByTag"
    /\ Await(r, IF release THEN "uploadReleaseAsset" ELSE "createRelease")
    /\ UNCHANGED <<now, storage, rateLimitStore, supabase, uploadRegistry, chunkFiles, release,
                   assets, cdn_files,
                   fileRegistry, resp>>

\* createRelease returns: the new release, or the refusal of a tag that has
\* a release, which leaves the try block.
COMPLETE_createRelease(r) ==
    /\ r \in DOMAIN inflight
    /\ inflight[r].pc = "createRelease"
    /\ IF ~release
       THEN /\ release' = TRUE
            /\ Await(r, "uploadReleaseAsset")
            /\ UNCHANGED <<uploadRegistry, resp>>
       ELSE /\ UnlinkLoop(r, inflight[r], 0, TRUE)
            /\ UNCHANGED release
    /\ UNCHANGED <<now, storage, rateLimitStore, supabase, chunkFiles, assets, cdn_files,
                   fileRegistry>>

\* uploadReleaseAsset returns: the asset, or the refusal of a name the release
\* already holds, which leaves the try block.
COMPLETE_uploadReleaseAsset(r) ==
    /\ r \in DOMAIN inflight
    /\ inflight[r].pc = "uploadReleaseAsset"
    /\ LET rec == inflight[r]
           finalFileName == StoredName(rec.uploadId, rec.originalName)
       IN IF UploadReleaseAssetOk(finalFileName, "none")
          THEN /\ assets' = With(assets, finalFileName, Concat(rec.mergedChunks))
               /\ Await(r, "insert")
               /\ UNCHANGED <<uploadRegistry, resp>>
          ELSE /\ UnlinkLoop(r, rec, 0, TRUE)
               /\ UNCHANGED assets
    /\ UNCHANGED <<now, storage, rateLimitStore, supabase, chunkFiles, release, cdn_files,
                   fileRegistry>>

\* The insert into cdn_files returns; the cleanup loop of the success path
\* begins.
COMPLETE_insert(r) ==
    /\ r \in DOMAIN inflight
    /\ inflight[r].pc = "insert"
    /\ LET rec == inflight[r]
       IN /\ cdn_files' = InsertIgnoringError(
                 ChunkedRow(rec.uploadId, rec.originalName, Concat(rec.mergedChunks)), "none")
          /\ UnlinkLoop(r, rec, 0, FALSE)
    /\ UNCHANGED <<now, storage, rateLimitStore, supabase, chunkFiles, release, assets,
                   fileRegistry>>

\* unlink of chunk_i returns: the file is gone and the loop goes on, or
\* ENOENT (another invocation unlinked it meanwhile), which ends the loop:
\* the catch block answers without deleting the session, the success path
\* deletes it and answers.
COMPLETE_unlink(r) ==
    /\ r \in DOMAIN inflight
    /\ inflight[r].pc = "unlink"
    /\ LET rec == inflight[r]
           chunkPath == <<rec.uploadId, rec.i>>
       IN IF chunkPath \in DOMAIN chunkFiles
          THEN /\ chunkFiles' = Without(chunkFiles, {chunkPath})
               /\ UnlinkLoop(r, rec, rec.i + 1, rec.failed)
          ELSE /\ UNCHANGED chunkFiles
               /\ IF rec.failed
                  THEN /\ Answer(r, NotCompleted)
                       /\ UNCHANGED uploadRegistry
                  ELSE /\ uploadRegistry' = Without(uploadRegistry, {rec.uploadId})
                       /\ Answer(r, Completed(rec))
    /\ UNCHANGED <<now, storage, rateLimitStore, supabase, release, assets, cdn_files,
                   fileRegistry>>

\* unlink(tempDir) returns (refused: tempDir is a directory); the session is
\* deleted and completeUpload answers.
COMPLETE_unlinkTempDir(r) ==
    /\ r \in DOMAIN inflight
    /\ inflight[r].pc = "unlinkTempDir"
    /\ uploadRegistry' = Without(uploadRegistry, {inflight[r].uploadId})
    /\ Answer(r, Completed(inflight[r]))
    /\ UNCHANGED <<now, storage, rateLimitStore, supabase, chunkFiles, release, assets,
                   cdn_files, fileRegistry>>

(* --------------------------- specifications ---------------------------- *)
\* Upload ids clients present: the one init issues at this instant, and one
\* that no init has issued.
RequestIds == {now, now + 1}

\* The name of the file a client sends through the chunk protocol.
ChunkedFileNames == {<<"a", "png">>}

\* The fileSize a client declares where one suffices: a file one unit above
\* the size the client sends in a single request.
ChunkedFileSize == CLIENT_CHUNK_SIZE + 1

\* An init request: a named file of 0..MaxChunks chunks, or one lacking its
\* fileName.
InitRequest ==
    \/ \E f \in ChunkedFileNames, n \in 0..MaxChunks :
          initializeUpload(f, ChunkedFileSize, n)
    \/ initializeUpload(<<>>, ChunkedFileSize, 1)

\* A chunk request: well-formed and written, well-formed with the write
\* failing, or lacking a form field.
ChunkRequest ==
    \/ \E u \in RequestIds, i \in ChunkIdx, c \in Chunks : uploadChunk(TRUE, u, i, c, TRUE)
    \/ \E i \in ChunkIdx : uploadChunk(TRUE, now, i, <<1>>, FALSE)
    \/ uploadChunk(FALSE, now, 0, <<1>>, TRUE)

\* A complete request.  An unlink failure during cleanup is combined with the
\* success path and with the failure path entered by a failed read; faults
\* are injected into requests that carry the id of the present instant.
CompleteRequest ==
    \E u \in RequestIds, f \in ChunkedFileNames,
       fault \in {"none", "read", "insert"} \cup GhFaults,
       x \in ChunkIdx \cup {NoFault} :
        /\ x # NoFault => fault \in {"none", "read"}
        /\ u # now => fault = "none" /\ x = NoFault
        /\ completeUpload(u, f, fault, x)

UploadRequest ==
    \E h \in BOOLEAN, f \in Files,
       fault \in {"none", "gcSelect", "delete", "insert"} \cup GhFaults :
        uploadPOST(h, f, fault)

ListRequest ==
    \E fault \in {"none", "gcSelect", "delete", "select"} : uploadGET(fault)

DeleteRequest ==
    \E h \in BOOLEAN, id \in Times, fault \in {"none", "delete"} :
        uploadDELETE(h, id, fault)

DirectRequest ==
    \E h \in BOOLEAN, f \in Files, fault \in {"none", "insert"} \cup GhFaults :
        directPOST(h, f, fault)

ResolveRequest ==
    \E n \in StoredNames, fault \in {"none", "select"} : filesGET(n, fault)

\* The chunked ingestion protocol, within one clock value (every session of
\* a behaviour has the upload id of that instant).
NextChunked ==
    \/ InitRequest
    \/ ChunkRequest
    \/ CompleteRequest

\* The chunk protocol is followed on a deployment with Supabase configured:
\* completeUpload then writes its row, and nothing else in the route reads
\* the supabase client.
InitChunked == Init /\ supabase

SpecChunked == InitChunked /\ [][NextChunked]_vars

\* The registry: single-shot and direct uploads, listing, deletion, resolution.
NextRegistry ==
    \/ Tick
    \/ UploadRequest
    \/ DirectRequest
    \/ ListRequest
    \/ DeleteRequest
    \/ ResolveRequest

SpecRegistry == Init /\ [][NextRegistry]_vars

\* The three upload paths side by side within one clock value, the chunk
\* protocol with one-chunk sessions.
NextUploads ==
    \/ UploadRequest
    \/ DirectRequest
    \/ \E f \in ChunkedFileNames : initializeUpload(f, ChunkedFileSize, 1)
    \/ \E u \in RequestIds, c \in Chunks : uploadChunk(TRUE, u, 0, c, TRUE)
    \/ \E u \in RequestIds, f \in ChunkedFileNames,
          fault \in {"none", "read", "insert"} \cup GhFaults :
          completeUpload(u, f, fault, NoFault)

SpecUploads == Init /\ [][NextUploads]_vars

\* The file sent to the single-shot and direct routes where one suffices.
OneFile == [name |-> <<"b">>, data |-> <<2, 2>>]

\* Every path that writes a record, with the clock running, and the
\* garbage collection that runs on the records afterwards.  One chunked
\* session of one chunk is open at a time; the only call that fails is the
\* Supabase insert of the single-shot route, which sends the record to the
\* in-memory array; saveFileMetadata is called with the id its asset was
\* named by.
NextRecords ==
    \/ Tick
    \/ \E fault \in {"none", "insert"} : uploadPOST(TRUE, OneFile, fault)
    \/ directPOST(TRUE, OneFile, "none")
    \/ \E f \in ChunkedFileNames : uploadRegistry = EmptyMap /\ initializeUpload(f, ChunkedFileSize, 1)
    \/ \E u \in DOMAIN uploadRegistry : uploadChunk(TRUE, u, 0, <<1>>, TRUE)
    \/ \E u \in DOMAIN uploadRegistry, f \in ChunkedFileNames :
          completeUpload(u, f, "none", NoFault)
    \/ \E n \in DOMAIN assets : saveFileMetadata(n[1], n, Len(assets[n]), "none")
    \/ uploadGET("none")

SpecRecords == Init /\ [][NextRecords]_vars

\* Uploads through the route with compression, within one clock value.
MediaFaults == {"none", "upload", "insert"}

\* A request with a file within the limit, one with a file over it, one
\* without a file.
MediaRequest ==
    \/ \E file \in MediaFiles, fault \in MediaFaults :
          \E sharp \in Sharp(file.data) : mediaPOST(TRUE, file, sharp, fault)
    \/ mediaPOST(TRUE, OverLimitFile, SharpThrows, "none")
    \/ mediaPOST(FALSE, OverLimitFile, SharpThrows, "none")

NextMedia == MediaRequest

SpecMedia == Init /\ [][NextMedia]_vars

\* Math.ceil(a / b) for positive integers.
Ceil(a, b) == (a + b - 1) \div b

\* components/CDNManager uploadFile: Math.ceil(selectedFile.size / CHUNK_SIZE)
ClientTotalChunks(size) == Ceil(size, CLIENT_CHUNK_SIZE)

\* selectedFile.slice(i * CHUNK_SIZE, Math.min(i * CHUNK_SIZE + CHUNK_SIZE, size)),
\* for a file whose i-th slice is filled with the byte i + 1.
ClientChunk(size, i) ==
    LET start == i * CLIENT_CHUNK_SIZE
        end == IF start + CLIENT_CHUNK_SIZE < size THEN start + CLIENT_CHUNK_SIZE ELSE size
    IN Bytes(end - start, i + 1)

\* File sizes the client sends through the chunk protocol (above one slice),
\* up to MaxChunks slices: whole slices, and slices and a part.
DeclaredSizes ==
    {size \in (CLIENT_CHUNK_SIZE + 1)..(MaxChunks * CLIENT_CHUNK_SIZE) :
        size % CLIENT_CHUNK_SIZE \in {0, 4, 7}}

\* Init bodies whose fileSize or totalChunks is a negative number (the body
\* is JSON of the caller's making; a negative number is truthy).
NegativeInits ==
    {[fileSize |-> 0 - 1, totalChunks |-> 1],
     [fileSize |-> ChunkedFileSize, totalChunks |-> 0 - 1]}

\* The chunk protocol driven by the client component, one session at a time
\* within one clock value: init with the size of the file and the number of
\* its slices, the slices in any order, complete.  Beside it, an init without
\* fileSize, inits with a negative fileSize or totalChunks, and a client that
\* sends one byte in place of a slice.
NextSizes ==
    \/ \E f \in ChunkedFileNames, size \in DeclaredSizes :
          uploadRegistry = EmptyMap /\ initializeUpload(f, size, ClientTotalChunks(size))
    \/ \E f \in ChunkedFileNames : initializeUpload(f, 0, 1)
    \/ \E f \in ChunkedFileNames, m \in NegativeInits :
          uploadRegistry = EmptyMap /\ initializeUpload(f, m.fileSize, m.totalChunks)
    \/ \E u \in DOMAIN uploadRegistry, i \in ChunkIdx :
          /\ i < uploadRegistry[u].totalChunks
          /\ uploadChunk(TRUE, u, i, ClientChunk(uploadRegistry[u].originalSize, i), TRUE)
    \/ \E u \in DOMAIN uploadRegistry, i \in ChunkIdx :
          /\ i < uploadRegistry[u].totalChunks
          /\ uploadChunk(TRUE, u, i, <<1>>, TRUE)
    \/ \E u \in DOMAIN uploadRegistry, f \in ChunkedFileNames :
          completeUpload(u, f, "none", NoFault)

SpecSizes == InitChunked /\ [][NextSizes]_vars

\* A request to an ingestion or delete endpoint as its caller sends it.
\* authorized: what the authorization check decides for the caller.  The
\* handlers take the request and read its body, form or query; none reads
\* the caller's credentials, so the decision enters none of them.
CallerRequest(authorized) ==
    \/ \E f \in ChunkedFileNames : initializeUpload(f, ChunkedFileSize, 1)
    \/ \E u \in RequestIds, c \in Chunks : uploadChunk(TRUE, u, 0, c, TRUE)
    \/ \E u \in RequestIds, f \in ChunkedFileNames : completeUpload(u, f, "none", NoFault)
    \/ \E f \in Files : uploadPOST(TRUE, f, "none")
    \/ \E id \in RequestIds : uploadDELETE(TRUE, id, "none")

\* Authorized and unauthorized callers at the ingestion and delete
\* endpoints, within one clock value.
NextCallers == \E authorized \in BOOLEAN : CallerRequest(authorized)

SpecCallers == Init /\ [][NextCallers]_vars

\* Ids of the wiki pages and of the gallery items.
PageIds == {"p1", "p2"}
ItemIds == {"g1", "g2"}

\* The hooks called from the wiki page, each Supabase call succeeding or
\* failing.
NextHooks ==
    \/ \E page \in PageIds, ok \in BOOLEAN : savePage(page, ok)
    \/ \E page \in PageIds, ok \in BOOLEAN : deletePage(page, ok)
    \/ \E item \in ItemIds, ok \in BOOLEAN : saveItem(item, ok)
    \/ \E item \in ItemIds, ok \in BOOLEAN : deleteItem(item, ok)

SpecHooks == Init /\ [][NextHooks]_vars

\* Names a complete request gives for originalName.
CompleteNames == {<<"a", "png">>, <<"a", "jpg">>}

\* Chunk and complete requests running concurrently, within one clock value.
\* A session is opened when no other is open and nothing is in flight, and
\* chunk requests keep to the indices of their session.
NextAssembly ==
    \/ \E f \in ChunkedFileNames, n \in 1..MaxChunks :
          /\ uploadRegistry = EmptyMap /\ inflight = EmptyMap /\ assets = EmptyMap
          /\ initializeUpload(f, ChunkedFileSize, n)
    \/ \E r \in Requests, u \in DOMAIN uploadRegistry, i \in ChunkIdx, c \in Chunks :
          /\ i < uploadRegistry[u].totalChunks
          /\ CHUNK_start(r, u, i, c)
    \/ \E r \in Requests : CHUNK_writeFile(r)
    \/ \E r \in Requests, u \in RequestIds, f \in CompleteNames : COMPLETE_start(r, u, f)
    \/ \E r \in Requests : COMPLETE_readFile(r)
    \/ \E r \in Requests : COMPLETE_getReleaseByTag(r)
    \/ \E r \in Requests : COMPLETE_createRelease(r)
    \/ \E r \in Requests : COMPLETE_uploadReleaseAsset(r)
    \/ \E r \in Requests : COMPLETE_insert(r)
    \/ \E r \in Requests : COMPLETE_unlink(r)
    \/ \E r \in Requests : COMPLETE_unlinkTempDir(r)

SpecAssembly == InitChunked /\ [][NextAssembly]_vars

\* Logins from the client addresses, with the clock running.
NextAuth ==
    \/ Tick
    \/ \E ip \in IPs, hasPassword \in BOOLEAN, valid \in BOOLEAN :
          authPOST(ip, hasPassword, valid)

SpecAuth == Init /\ [][NextAuth]_vars

\* Single-shot uploads running concurrently.
NextConcurrent ==
    \/ \E r \in Requests, h \in BOOLEAN, f \in Files : POST_start(r, h, f)
    \/ \E r \in Requests : POST_getReleaseByTag(r)
    \/ \E r \in Requests : POST_createRelease(r)
    \/ \E r \in Requests : POST_uploadReleaseAsset(r)
    \/ \E r \in Requests : POST_saveFileToRegistry(r)

SpecConcurrent == Init /\ [][NextConcurrent]_vars

\* Every route.
Next ==
    \/ NextChunked
    \/ NextRegistry

Spec == Init /\ [][Next]_vars

(* ------------------------- chunk protocol claims ----------------------- *)
\* Parameters of the complete requests the specifications issue.
CompleteFaults == {"none", "read", "insert"} \cup GhFaults
UnlinkFaults == ChunkIdx \cup {NoFault}

\* Every index 0..totalChunks-1 of the session has been received.
AllReceived(uploadId) ==
    \A i \in 0..(uploadRegistry[uploadId].totalChunks - 1) :
        i \in Range(uploadRegistry[uploadId].uploadedChunks)

\* The stored chunks of the session, concatenated in index order.
InIndexOrder(uploadId) ==
    Concat([k \in 1..uploadRegistry[uploadId].totalChunks |-> chunkFiles[<<uploadId, k - 1>>]])

\* C1: when every index 0..N-1 of a session has been received, in whatever
\* order, a complete() that succeeds uploads as the asset the concatenation of
\* the stored chunk contents in index order 0, 1, ..., N-1.
C1_AssembledInIndexOrder ==
    [][resp'.op = "complete" =>
       \A u \in RequestIds, f \in ChunkedFileNames, fault \in CompleteFaults, x \in UnlinkFaults :
          (/\ u \in DOMAIN uploadRegistry
           /\ AllReceived(u)
           /\ resp'.status = 200
           /\ completeUpload(u, f, fault, x))
          => /\ StoredName(u, f) \in DOMAIN assets'
             /\ assets'[StoredName(u, f)] = InIndexOrder(u)]_vars

\* C1 witness: a two-chunk upload was assembled, the longer chunk at index 0.
C1_Witness ==
    /\ resp.op = "complete"
    /\ resp.status = 200
    /\ resp.body.fileName \in DOMAIN assets
    /\ assets[resp.body.fileName] = <<2, 2, 1>>

\* C2: a complete() on a session in which some index of 0..totalChunks-1 has
\* not been received answers 400 'Missing chunks', uploads no asset and
\* writes no registry record.
C2_MissingIndexIsIncompleteUpload ==
    [][\A u \in RequestIds, f \in ChunkedFileNames, fault \in CompleteFaults, x \in UnlinkFaults :
          (/\ completeUpload(u, f, fault, x)
           /\ u \in DOMAIN uploadRegistry
           /\ ~AllReceived(u))
          => /\ resp'.status = 400
             /\ resp'.error = "Missing chunks"
             /\ UNCHANGED <<assets, cdn_files, fileRegistry>>]_vars

\* C4: after a complete() on a known session, whatever its outcome, the
\* session entry is gone and no chunk file of that upload id is left.
C4_CompleteAlwaysCleansUp ==
    [][\A u \in RequestIds, f \in ChunkedFileNames, fault \in CompleteFaults, x \in UnlinkFaults :
          (/\ completeUpload(u, f, fault, x)
           /\ u \in DOMAIN uploadRegistry)
          => /\ u \notin DOMAIN uploadRegistry'
             /\ \A k \in DOMAIN chunkFiles' : k[1] # u]_vars

\* C9: a well-formed receiveChunk for an upload id that has no session entry
\* answers 404 'Upload session not found' and changes neither the session
\* registry nor the chunk files.
C9_UnknownSessionRejected ==
    [][resp'.op = "chunk" =>
       \A u \in RequestIds, i \in ChunkIdx, c \in Chunks, ok \in BOOLEAN :
          (/\ u \notin DOMAIN uploadRegistry
           /\ uploadChunk(TRUE, u, i, c, ok))
          => /\ resp'.status = 404
             /\ resp'.error = "Upload session not found"
             /\ UNCHANGED <<uploadRegistry, chunkFiles>>]_vars

\* C9 witness: a chunk request was answered 404 while chunk files of a
\* discarded session with that instant's id are still on disk.
C9_Witness ==
    /\ resp.op = "chunk"
    /\ resp.status = 404
    /\ uploadRegistry = EmptyMap
    /\ chunkFiles # EmptyMap

\* C10: receiving index i again for a session leaves uploadedChunks and the
\* reported uploadedChunks count as they were, the file of (uploadId, i)
\* holds the bytes of the latest call, and no other chunk file is added or
\* changed.
C10_ResendIsIdempotent ==
    [][resp'.op = "chunk" =>
       \A u \in RequestIds, i \in ChunkIdx, c \in Chunks :
          (/\ u \in DOMAIN uploadRegistry
           /\ i \in Range(uploadRegistry[u].uploadedChunks)
           /\ uploadChunk(TRUE, u, i, c, TRUE))
          => /\ resp'.status = 200
             /\ uploadRegistry'[u].uploadedChunks = uploadRegistry[u].uploadedChunks
             /\ resp'.body.uploadedChunks = Len(uploadRegistry[u].uploadedChunks)
             /\ chunkFiles'[<<u, i>>] = c
             /\ \A k \in DOMAIN chunkFiles' :
                   k # <<u, i>> => k \in DOMAIN chunkFiles /\ chunkFiles'[k] = chunkFiles[k]]_vars

\* C10 witness: the last chunk answered is the one received first of two, so
\* it was received again, and its file holds other bytes than the other's.
C10_Witness ==
    /\ resp.op = "chunk"
    /\ resp.status = 200
    /\ resp.body.uploadId \in DOMAIN uploadRegistry
    /\ LET received == uploadRegistry[resp.body.uploadId].uploadedChunks
       IN /\ Len(received) = 2
          /\ received[1] = resp.body.chunkIndex
          /\ resp.body.uploadedChunks = 2

(* ---------------------------- registry claims ------------------------- *)
\* Every record the registry holds, in the table or in the in-memory array.
AllRecords == {cdn_files[id] : id \in DOMAIN cdn_files} \cup Range(fileRegistry)

\* The rows of cdn_files stored under a name.
RowsNamed(filename) ==
    {cdn_files[id] : id \in {x \in DOMAIN cdn_files : cdn_files[x].fileName = filename}}

\* C3: every record in the registry carries the download URL of an asset
\* that is in the release: no upload path writes a record before, or
\* without, a successful asset upload.
C3_RecordsHaveConfirmedBlob ==
    \A record \in AllRecords :
        /\ record.fileName \in DOMAIN assets
        /\ record.githubUrl = BrowserDownloadUrl(record.fileName)

\* C3 witness: the table and the in-memory array both hold a record, the
\* latest one written by an upload that has just succeeded.
C3_Witness ==
    /\ cdn_files # EmptyMap
    /\ fileRegistry # <<>>
    /\ resp.status = 200

\* C5: delete and the listing with its garbage collection leave the release
\* and its assets as they are, and no step removes or changes an asset, so
\* every download URL issued keeps referring to its blob.
C5_RegistryOpsLeaveBlobs ==
    [][/\ (resp'.op \in {"delete", "list"} /\ (DeleteRequest \/ ListRequest))
             => UNCHANGED <<release, assets>>
       /\ \A n \in DOMAIN assets : n \in DOMAIN assets' /\ assets'[n] = assets[n]]_vars

\* C5 witness: after a delete the registry holds no record while the
\* release still holds assets.
C5_Witness ==
    /\ resp.op = "delete"
    /\ resp.status = 200
    /\ AllRecords = {}
    /\ Cardinality(DOMAIN assets) = MaxAssets

\* C6: after delete(id) answers success, a list() served by either backend
\* returns no record with that id, and every other record is unchanged.
C6_DeletedRecordNeverListed ==
    [][\A id \in Times, fault \in {"none", "delete"} :
          (uploadDELETE(TRUE, id, fault) /\ resp'.status = 200)
          => /\ \A selectOk \in BOOLEAN :
                   \A files \in getFileRegistry(cdn_files', fileRegistry', selectOk) :
                       \A k \in DOMAIN files : files[k].id # id
             /\ \A x \in DOMAIN cdn_files : x # id =>
                   x \in DOMAIN cdn_files' /\ cdn_files'[x] = cdn_files[x]
             /\ SelectSeq(fileRegistry', LAMBDA f : f.id # id)
                   = SelectSeq(fileRegistry, LAMBDA f : f.id # id)]_vars

\* C7: a list() returns no record whose expiryDate has passed (the listing
\* runs the garbage collection first), and resolve answers not-found for a
\* stored name whose record's expiryDate has passed.
C7_ExpiredAbsentAfterGC ==
    [][/\ \A fault \in {"none", "gcSelect", "delete", "select"} :
             uploadGET(fault) =>
                 \A k \in DOMAIN resp'.body : resp'.body[k].expiryDate >= now
       /\ \A n \in StoredNames, fault \in {"none", "select"} :
             (filesGET(n, fault) /\ \E row \in RowsNamed(n) : row.expiryDate < now)
             => resp'.status = 404]_vars

C11_InitIssuesFreshId ==
    [][\A f \in ChunkedFileNames, n \in 1..MaxChunks :
          (initializeUpload(f, ChunkedFileSize, n) /\ resp'.status = 200)
          => /\ resp'.body.uploadId \notin DOMAIN uploadRegistry
             /\ \A u \in DOMAIN uploadRegistry :
                   u \in DOMAIN uploadRegistry' /\ uploadRegistry'[u] = uploadRegistry[u]]_vars

\* C12: a single-shot upload of an acceptable file, with every external call
\* succeeding, generates a stored name no asset of the release has, and
\* completes with success.
C12_StoredNamesAreUnique ==
    [][\A f \in Files :
          (Len(f.data) <= MAX_FILE_SIZE /\ uploadPOST(TRUE, f, "none"))
          => /\ StoredName(now, f.name) \notin DOMAIN assets
             /\ resp'.status = 200]_vars

(* --------------------------- release claims ---------------------------- *)
\* C13: when the lookup of the release fails for a reason other than the
\* release not existing (fault "get"), no upload path creates a release and
\* none answers success.
C13_LookupFailurePropagates ==
    [][/\ \A f \in Files :
             (uploadPOST(TRUE, f, "get") \/ directPOST(TRUE, f, "get"))
             => release' = release /\ resp'.status # 200
       /\ \A u \in RequestIds, f \in ChunkedFileNames :
             completeUpload(u, f, "get", NoFault)
             => release' = release /\ resp'.status # 200]_vars

\* C14: an invocation whose createRelease is refused because another
\* invocation created the release meanwhile goes on to upload its asset.
C14_CreationRaceIsSuccessByLookup ==
    [][\A r \in Requests :
          (release /\ POST_createRelease(r))
          => /\ r \in DOMAIN inflight'
             /\ inflight'[r].pc = "uploadReleaseAsset"]_vars

(* ------------------------ registry write claims ----------------------- *)
\* C15: a single-shot upload whose record has the id of a record already in
\* the registry does not answer success, and leaves the table and the
\* in-memory array as they were.
C15_DuplicateIdRejected ==
    [][\A f \in Files :
          (/\ \E record \in AllRecords : record.id = now
           /\ Len(f.data) <= MAX_FILE_SIZE
           /\ StoredName(now, f.name) \notin DOMAIN assets
           /\ uploadPOST(TRUE, f, "none"))
          => /\ resp'.status # 200
             /\ UNCHANGED <<cdn_files, fileRegistry>>]_vars

\* C16: with Supabase configured, an upload whose insert into cdn_files
\* fails (fault "insert") does not answer success, by the chunked route or by
\* the single-shot route.
C16_FailedRegistryWriteIsReported ==
    [][supabase =>
       /\ \A u \in RequestIds, f \in ChunkedFileNames :
             completeUpload(u, f, "insert", NoFault) => resp'.status # 200
       /\ \A f \in Files :
             uploadPOST(TRUE, f, "insert") => resp'.status # 200]_vars

(* ---------------------------- listing claims -------------------------- *)
\* The records of the backend that serves reads when no call fails.
ServingRecords ==
    IF supabase THEN {cdn_files[id] : id \in DOMAIN cdn_files} ELSE Range(fileRegistry)

\* C17: with no call failing, list() returns exactly the records of the
\* serving backend whose expiryDate is later than now, newest uploadDate
\* first, whether Supabase or the in-memory array serves the read.
C17_ListIsLiveRecordsNewestFirst ==
    [][uploadGET("none") =>
       LET files == resp'.body
       IN /\ Range(files) = {record \in ServingRecords : record.expiryDate > now}
          /\ \A a, b \in DOMAIN files :
                a < b => files[a].uploadDate >= files[b].uploadDate]_vars

(* ------------------------- record date claims ------------------------- *)
\* C18: every step leaves each record of the registry either as it was, or
\* newly written with uploadDate the present instant and expiryDate exactly
\* RETENTION (14 days) later, hence strictly later than uploadDate.
C18_ExpiryIsUploadPlusRetention ==
    [][\A record \in AllRecords' :
          \/ record \in AllRecords
          \/ /\ record.uploadDate = now
             /\ record.expiryDate = record.uploadDate + RETENTION
             /\ record.expiryDate > record.uploadDate]_vars

\* C18 witness: the table holds a record of a chunked upload completed after
\* the instant of its init and before now, and the in-memory array holds a
\* record too.
C18_Witness ==
    /\ \E id \in DOMAIN cdn_files :
          cdn_files[id].id < cdn_files[id].uploadDate /\ cdn_files[id].uploadDate < now
    /\ fileRegistry # <<>>

(* -------------------------- compression claims ------------------------ *)
\* C19: the buffer an upload stores is never longer than the file sent; when
\* sharp throws or returns a buffer that is not shorter, the file is stored
\* byte for byte with compressed = false, and the upload succeeds provided
\* its asset name is free and no call fails.
C19_CompressionNeverGrows ==
    [][resp'.op = "media" =>
       \A file \in MediaFiles, fault \in MediaFaults :
          \A sharp \in Sharp(file.data) :
             mediaPOST(TRUE, file, sharp, fault) =>
                LET notSmaller == sharp.threw \/ Len(sharp.out) >= Len(file.data)
                IN /\ resp'.status = 200 =>
                         Len(assets'[resp'.body.fileName]) <= Len(file.data)
                   /\ (notSmaller /\ resp'.status = 200) =>
                         /\ assets'[resp'.body.fileName] = file.data
                         /\ resp'.body.compressed = FALSE
                   /\ (/\ notSmaller
                       /\ fault = "none"
                       /\ StoredName(now, file.name) \notin DOMAIN assets) =>
                         resp'.status = 200]_vars

\* C19 witness: an image above 1 MB was uploaded as it was sent, its
\* recompression having failed or not made it smaller.
C19_Witness ==
    /\ resp.op = "media"
    /\ resp.status = 200
    /\ resp.body.mimeType[1] = "image"
    /\ resp.body.size > IMAGE_THRESHOLD
    /\ resp.body.compressed = FALSE
    /\ assets[resp.body.fileName] = Bytes(2, 1)

C21_RatioReportedWhenCompressed ==
    [][resp'.op = "media" =>
       \A file \in MediaFiles, fault \in MediaFaults :
          \A sharp \in Sharp(file.data) :
             (mediaPOST(TRUE, file, sharp, fault) /\ resp'.status = 200) =>
                LET record == resp'.body
                    original == Len(file.data)
                IN IF record.compressed
                   THEN /\ record.size < original
                        /\ Len(record.compressionRatio) = 1
                        /\ record.compressionRatio[1] > 0
                        /\ record.compressionRatio[1] * original
                              = 100 * (original - record.size)
                   ELSE record.compressionRatio = <<>>]_vars

(* ------------------------- declared size claims ---------------------- *)
\* C22: an init that succeeds returns totalChunks = ceil(fileSize / chunkSize)
\* for the chunkSize it returns, and creates the session with that
\* totalChunks.
C22_TotalChunksIsCeilOfSize ==
    [][resp'.op = "init" =>
       \A f \in ChunkedFileNames, size \in DeclaredSizes :
          (initializeUpload(f, size, ClientTotalChunks(size)) /\ resp'.status = 200)
          => /\ resp'.body.totalChunks = Ceil(size, resp'.body.chunkSize)
             /\ uploadRegistry'[resp'.body.uploadId].totalChunks = resp'.body.totalChunks]_vars

\* C23: a complete() that succeeds reports as the record's size the byte
\* length of the asset it uploaded, and that length is the fileSize declared
\* at init.
C23_RecordSizeIsDeclaredSize ==
    [][resp'.op = "complete" =>
       \A u \in DOMAIN uploadRegistry, f \in ChunkedFileNames :
          (completeUpload(u, f, "none", NoFault) /\ resp'.status = 200)
          => /\ resp'.body.size = Len(assets'[resp'.body.fileName])
             /\ resp'.body.size = uploadRegistry[u].originalSize]_vars

C25_UnauthorizedCallsHaveNoEffect ==
    [][\A authorized \in BOOLEAN :
          (~authorized /\ CallerRequest(authorized))
          => UNCHANGED <<uploadRegistry, chunkFiles, release, assets, cdn_files,
                         fileRegistry>>]_vars

(* ---------------------------- resolver claims -------------------------- *)
\* C26: the answer of the resolver for a stored name whose record has
\* expired is the answer it gives for a stored name that has no record:
\* the same status and the same body.
C26_ExpiredLooksLikeMissing ==
    [][resp'.op = "resolve" =>
       \A n \in StoredNames :
          (/\ supabase
           /\ \E row \in RowsNamed(n) : row.expiryDate <= now
           /\ filesGET(n, "none"))
          => resp' = Response("resolve", 404, "File not found", NoBody)]_vars

(* --------------------------- size limit claims ------------------------- *)
\* C27: POST /api/upload accepts every file up to 500 MB (1000 units of
\* 0.5 MB): with every call succeeding and the asset name free, the upload
\* of such a file answers success.
C27_AcceptsUpToDocumentedLimit ==
    [][resp'.op = "upload" =>
       \A f \in Files :
          (/\ Len(f.data) <= 2 * MEDIA_MAX_FILE_SIZE
           /\ StoredName(now, f.name) \notin DOMAIN assets
           /\ uploadPOST(TRUE, f, "none"))
          => resp'.status = 200]_vars

(* ------------------------ hybrid storage claims ----------------------- *)
\* C28: with Supabase enabled, a deletePage or deleteItem whose Supabase
\* delete fails leaves the page or item in the local state and returns
\* false.
C28_LocalDeleteOnlyAfterRemote ==
    [][supabase =>
       /\ \A page \in PageIds :
             (page \in storage.pages /\ deletePage(page, FALSE))
             => page \in storage'.pages /\ resp'.body.returned = FALSE
       /\ \A item \in ItemIds :
             (item \in storage.items /\ deleteItem(item, FALSE))
             => item \in storage'.items /\ resp'.body.returned = FALSE]_vars

(* ------------------------ chunked compression claims ------------------ *)
\* C29: a complete() that succeeds has passed its buffer through the
\* compression step: the record it answers with, and the row it writes,
\* carry the field compressed.
C29_ChunkedUploadsAreCompressed ==
    [][resp'.op = "complete" =>
       \A u \in DOMAIN uploadRegistry, f \in ChunkedFileNames :
          (completeUpload(u, f, "none", NoFault) /\ resp'.status = 200)
          => /\ "compressed" \in DOMAIN resp'.body
             /\ \A id \in DOMAIN cdn_files' :
                   id \notin DOMAIN cdn_files => "compressed" \in DOMAIN cdn_files'[id]]_vars

(* ------------------------ garbage collection claims -------------------- *)
\* C30: after a list(), the garbage collection it ran has left no record
\* with expiryDate <= now in the registry, whether its Supabase delete
\* succeeded or failed, and every record with expiryDate > now is in the
\* registry as it was.
C30_CollectsExactlyTheExpired ==
    [][resp'.op = "list" =>
       \A fault \in {"none", "delete"} :
          uploadGET(fault) =>
             /\ \A record \in AllRecords' : record.expiryDate > now
             /\ \A record \in AllRecords :
                   record.expiryDate > now => record \in AllRecords']_vars

(* ----------------------- collection trigger claims -------------------- *)
\* C31: the garbage collection runs before the registry is read by list()
\* and before the registry is written by the single-shot upload, the direct
\* upload and complete(): when one of them has answered success with no
\* call failing, the backend that serves reads holds no record with
\* expiryDate <= now.
C31_CollectionPrecedesReadsAndWrites ==
    [][LET collected == \A record \in ServingRecords' : record.expiryDate > now
       IN /\ uploadGET("none") => collected
          /\ (uploadPOST(TRUE, OneFile, "none") /\ resp'.status = 200) => collected
          /\ (directPOST(TRUE, OneFile, "none") /\ resp'.status = 200) => collected
          /\ \A u \in DOMAIN uploadRegistry, f \in ChunkedFileNames :
                (completeUpload(u, f, "none", NoFault) /\ resp'.status = 200)
                => collected]_vars

(* --------------------------- cleanup claims --------------------------- *)
\* C32: when the unlink of a chunk file throws after the asset upload and
\* the registry write have succeeded, complete() still answers success with
\* the file record, the asset and the row are stored, and the session entry
\* is removed.
C32_CleanupFailureKeepsSuccess ==
    [][resp'.op = "complete" =>
       \A u \in RequestIds, f \in ChunkedFileNames, x \in ChunkIdx :
          (/\ u \in DOMAIN uploadRegistry
           /\ x < uploadRegistry[u].totalChunks
           /\ Len(uploadRegistry[u].uploadedChunks) = uploadRegistry[u].totalChunks
           /\ \A i \in 0..(uploadRegistry[u].totalChunks - 1) : <<u, i>> \in DOMAIN chunkFiles
           /\ StoredName(u, f) \notin DOMAIN assets
           /\ completeUpload(u, f, "none", x))
          => /\ resp'.status = 200
             /\ resp'.body.fileName = StoredName(u, f)
             /\ StoredName(u, f) \in DOMAIN assets'
             /\ u \in DOMAIN cdn_files'
             /\ u \notin DOMAIN uploadRegistry']_vars

\* C32 witness: a complete() has answered success and removed the session
\* while chunk_0 of that upload, the first file its cleanup unlinks, is
\* still on disk.
C32_Witness ==
    /\ resp.op = "complete"
    /\ resp.status = 200
    /\ <<resp.body.id, 0>> \in DOMAIN chunkFiles
    /\ resp.body.id \notin DOMAIN uploadRegistry

\* C33: a failure of the registry backend on the read path never makes the
\* listing fail: a failed select of the listing is answered 200 with the
\* in-memory array, and a failed select or delete inside the garbage
\* collection fails neither the listing nor the upload that triggered it.
C33_ReadFailuresDegrade ==
    [][/\ \A fault \in {"gcSelect", "delete", "select"} :
             uploadGET(fault)
             => /\ resp'.status = 200
                /\ (supabase /\ fault = "select") => resp'.body = fileRegistry'
       /\ \A f \in Files, fault \in {"gcSelect", "delete"} :
             (/\ uploadPOST(TRUE, f, fault)
              /\ Len(f.data) <= MAX_FILE_SIZE
              /\ StoredName(now, f.name) \notin DOMAIN assets)
             => resp'.status = 200]_vars

\* A listing answered from the in-memory array while the table holds a live row.
C33_Witness ==
    /\ resp.op = "list"
    /\ resp.status = 200
    /\ supabase
    /\ resp.body = <<>>
    /\ \E id \in DOMAIN cdn_files : cdn_files[id].expiryDate > now

\* C34: init with a missing fileName, a missing or non-positive fileSize, or
\* a missing or non-positive totalChunks is answered 400 and creates no
\* session entry and no chunk file.
C34_MalformedInitRejected ==
    [][\A f \in ChunkedFileNames \cup {<<>>},
          size \in {0 - 1, 0, ChunkedFileSize},
          n \in (0 - 1)..MaxChunks :
          (/\ Len(f) = 0 \/ size <= 0 \/ n <= 0
           /\ initializeUpload(f, size, n))
          => /\ resp'.status = 400
             /\ UNCHANGED <<uploadRegistry, chunkFiles>>]_vars

\* C35: in every session uploadedChunks is a duplicate-free sequence of
\* indices of 0 .. totalChunks-1, so the uploadedChunks a chunk response
\* reports lies between 0 and totalChunks.
C35_ReceivedIndicesInRange ==
    /\ \A u \in DOMAIN uploadRegistry :
          LET metadata == uploadRegistry[u]
          IN /\ Range(metadata.uploadedChunks) \subseteq 0..(metadata.totalChunks - 1)
             /\ \A a, b \in 1..Len(metadata.uploadedChunks) :
                   a # b => metadata.uploadedChunks[a] # metadata.uploadedChunks[b]
    /\ (resp.op = "chunk" /\ resp.status = 200)
       => resp.body.uploadedChunks \in 0..resp.body.totalChunks

\* C36: however complete() calls on one uploadId interleave, the release
\* holds at most one asset of that uploadId and the registry at most one
\* record of it.
C36_OneAssetPerUploadId ==
    \A u \in Times :
        /\ Cardinality({name \in DOMAIN assets : name[1] = u}) <= 1
        /\ Cardinality({id \in DOMAIN cdn_files : cdn_files[id].id = u}) <= 1

\* C37: complete() is atomic with respect to the chunk requests of its
\* uploadId: while a complete() is past its completeness check, no chunk
\* file it has yet to read changes, and a chunk request leaves no chunk file
\* behind for a session that complete() has removed.
C37_CompleteAtomicAgainstChunks ==
    [][\A r \in DOMAIN inflight :
          CHUNK_writeFile(r)
          => LET u == inflight[r].uploadId
                 chunkPath == <<u, inflight[r].chunkIndex>>
             IN /\ \A q \in DOMAIN inflight :
                      (/\ inflight[q].pc = "readFile"
                       /\ inflight[q].uploadId = u
                       /\ inflight[q].i <= inflight[r].chunkIndex
                       /\ chunkPath \in DOMAIN chunkFiles)
                      => chunkFiles'[chunkPath] = chunkFiles[chunkPath]
                /\ u \notin DOMAIN uploadRegistry' => chunkPath \notin DOMAIN chunkFiles']_vars

\* C38: a record an upload has stored is, until it expires or is deleted,
\* in every listing and resolved to its download URL, whether Supabase or
\* the in-memory array is the registry.
C38_StoredRecordsListedAndResolved ==
    [][\A record \in AllRecords :
          record.expiryDate > now
          => /\ uploadGET("none") => record \in Range(resp'.body)
             /\ filesGET(record.fileName, "none")
                => /\ resp'.status = 307
                   /\ resp'.body = record.githubUrl]_vars

(* ------------------------------ auth claims ---------------------------- *)
\* C39: only failed attempts count toward lockout: a login from an address
\* that is not locked out and has fewer than 5 failed attempts is not
\* answered 429, a correct password from an address that is not locked out
\* is accepted, and an accepted login clears the address's entry.
C39_OnlyFailuresLock ==
    [][\A ip \in IPs, hasPassword \in BOOLEAN, valid \in BOOLEAN :
          authPOST(ip, hasPassword, valid)
          => LET lockedOut == /\ ip \in DOMAIN rateLimitStore
                              /\ rateLimitStore[ip].lockoutUntil > now * TickMinutes
                 failed == IF ip \in DOMAIN rateLimitStore
                           THEN rateLimitStore[ip].attempts ELSE 0
             IN /\ (~lockedOut /\ failed < LOCKOUT_ATTEMPTS) => resp'.status # 429
                /\ (~lockedOut /\ hasPassword /\ valid) => resp'.status = 200
                /\ resp'.status = 200 => ip \notin DOMAIN rateLimitStore']_vars

====
